---- MODULE Spec2Model ----
(***************************************************************************)
(* Schrader TPMS decoders (src/src/devices/schraeder.c): the Classic,      *)
(* EG53MA4 and SE3 callbacks run by the host on one captured bitbuffer     *)
(* row.  A decode attempt is one action; the frame it reads is the row the *)
(* demodulator delivered last.                                             *)
(***************************************************************************)
EXTENDS Integers, Sequences, FiniteSets, TLC

VARIABLES
    bitbuffer,       \* the captured row: [bits_per_row, bb, pad]
    variant,         \* decoder that made the last attempt on the row, or "none"
    ret,             \* return value of the last attempt
    output,          \* data handed to decoder_output_data by the last attempt
    extract_calls,   \* bitbuffer_extract_bytes calls of the last attempt
    b_index,         \* indices at which the last attempt read or wrote b[]
    b_size,          \* declared size of b[] in the decoder that ran last
    PARITY_VAL,      \* SE3: parity bit taken from the frame
    parity_ret,      \* SE3: value returned by parity_check
    first            \* history: the first decode attempt of the run

vars == <<bitbuffer, variant, ret, output, extract_calls, b_index, b_size,
          PARITY_VAL, parity_ret, first>>

-----------------------------------------------------------------------------
(* Bounds of the model *)

\* pseudo-random payloads per variant, beside the fixed ones
NSeed == 10
\* the integrity byte is offset by 0..NDelta (and by 128 and 255)
NDelta == 2
\* payloads of the specification that keeps the history of the first attempt
NPairSeed == 1

-----------------------------------------------------------------------------
(* C integer operators on naturals *)

\* bit i of x
Bit(x, i) == (x \div 2^i) % 2

\* the operators on one byte, bit by bit
And8(x, y) ==
    Bit(x, 0) * Bit(y, 0) + 2 * Bit(x, 1) * Bit(y, 1) + 4 * Bit(x, 2) * Bit(y, 2)
        + 8 * Bit(x, 3) * Bit(y, 3) + 16 * Bit(x, 4) * Bit(y, 4)
        + 32 * Bit(x, 5) * Bit(y, 5) + 64 * Bit(x, 6) * Bit(y, 6)
        + 128 * Bit(x, 7) * Bit(y, 7)

Xor8(x, y) ==
    ((Bit(x, 0) + Bit(y, 0)) % 2) + 2 * ((Bit(x, 1) + Bit(y, 1)) % 2)
        + 4 * ((Bit(x, 2) + Bit(y, 2)) % 2) + 8 * ((Bit(x, 3) + Bit(y, 3)) % 2)
        + 16 * ((Bit(x, 4) + Bit(y, 4)) % 2) + 32 * ((Bit(x, 5) + Bit(y, 5)) % 2)
        + 64 * ((Bit(x, 6) + Bit(y, 6)) % 2) + 128 * ((Bit(x, 7) + Bit(y, 7)) % 2)

Or8(x, y) == x + y - And8(x, y)

\* x & y, x | y, x ^ y on non-negative int values, a byte at a time
RECURSIVE BitAnd(_, _)
BitAnd(x, y) ==
    IF x = 0 \/ y = 0 THEN 0
    ELSE And8(x % 256, y % 256) + 256 * BitAnd(x \div 256, y \div 256)

RECURSIVE BitOr(_, _)
BitOr(x, y) ==
    IF x = 0 THEN y
    ELSE IF y = 0 THEN x
    ELSE Or8(x % 256, y % 256) + 256 * BitOr(x \div 256, y \div 256)

RECURSIVE BitXor(_, _)
BitXor(x, y) ==
    IF x = 0 THEN y
    ELSE IF y = 0 THEN x
    ELSE Xor8(x % 256, y % 256) + 256 * BitXor(x \div 256, y \div 256)

Shl(x, n) == x * 2^n

Shr(x, n) == x \div 2^n

\* conversion to uint8_t
U8(x) == x % 256

\* an unsigned (32 bit) value, kept as two 16-bit halves
U32(hi, lo) == [hi |-> hi, lo |-> lo]

\* (unsigned)x << n for a byte x and n in {0, 8, 16, 24}
U32Shl(x, n) ==
    IF n >= 16 THEN U32(Shl(x, n - 16) % 65536, 0)
    ELSE U32(Shr(Shl(x, n), 16), Shl(x, n) % 65536)

U32Or(v, w) == U32(BitOr(v.hi, w.hi), BitOr(v.lo, w.lo))

-----------------------------------------------------------------------------
(* Return codes of decoder.h *)

DECODE_ABORT_LENGTH == -1

DECODE_FAIL_MIC == -3

-----------------------------------------------------------------------------
(* Library routines the decoders call *)

\* bit i (from 0) of the row; the row's storage beyond bits_per_row holds
\* whatever the demodulator left there
RowBit(bbuf, i) == IF i < bbuf.bits_per_row THEN bbuf.bb[i + 1] ELSE bbuf.pad

RECURSIVE RowByte(_, _, _)
RowByte(bbuf, pos, n) ==
    IF n = 0 THEN 0 ELSE 2 * RowByte(bbuf, pos, n - 1) + RowBit(bbuf, pos + n - 1)

\* the first nbytes bytes that bitbuffer_extract_bytes stores for len bits from
\* bit pos: left-justified, the bits beyond len in the last byte zero
RECURSIVE extract_bytes(_, _, _, _)
extract_bytes(bbuf, pos, len, nbytes) ==
    IF nbytes = 0 THEN <<>>
    ELSE LET n == IF 8 * nbytes <= len THEN 8 ELSE len - 8 * (nbytes - 1)
         IN  Append(extract_bytes(bbuf, pos, len, nbytes - 1),
                    Shl(RowByte(bbuf, pos + 8 * (nbytes - 1), n), 8 - n))

\* bitbuffer_extract_bytes(bitbuffer, 0, pos, out, len); out[i] of C is element i+1
bitbuffer_extract_bytes(bbuf, pos, len) == extract_bytes(bbuf, pos, len, (len + 7) \div 8)

\* one turn of the bit loop of crc8
crc8_shift(remainder, polynomial) ==
    IF BitAnd(remainder, 128) # 0
    THEN BitXor(U8(Shl(remainder, 1)), polynomial)
    ELSE U8(Shl(remainder, 1))

\* the bit loop of crc8, from 8 down to 1
RECURSIVE crc8_byte(_, _, _)
crc8_byte(remainder, polynomial, bit) ==
    IF bit = 0 THEN remainder
    ELSE crc8_shift(crc8_byte(remainder, polynomial, bit - 1), polynomial)

\* crc8(message, nBytes, polynomial, init): MSB first, no reflection, no final xor
RECURSIVE crc8(_, _, _, _)
crc8(message, nBytes, polynomial, init) ==
    IF nBytes = 0 THEN init
    ELSE LET remainder == crc8(message, nBytes - 1, polynomial, init)
         IN  IF remainder < 0 THEN remainder
             ELSE crc8_byte(BitXor(remainder, message[nBytes]), polynomial, 8)

\* add_bytes(message, num_bytes): the int sum of the bytes
RECURSIVE add_bytes(_, _)
add_bytes(message, num_bytes) ==
    IF num_bytes = 0 THEN 0
    ELSE add_bytes(message, num_bytes - 1) + message[num_bytes]

UpperDigits == <<"0", "1", "2", "3", "4", "5", "6", "7",
                 "8", "9", "A", "B", "C", "D", "E", "F">>

LowerDigits == <<"0", "1", "2", "3", "4", "5", "6", "7",
                 "8", "9", "a", "b", "c", "d", "e", "f">>

RECURSIVE HexDigits(_, _)
HexDigits(v, digits) ==
    IF v < 16 THEN <<digits[v + 1]>>
    ELSE Append(HexDigits(v \div 16, digits), digits[(v % 16) + 1])

RECURSIVE ZeroPad(_, _)
ZeroPad(s, width) == IF Len(s) >= width THEN s ELSE ZeroPad(<<"0">> \o s, width)

\* sprintf(str, "%0<width>X", v) and sprintf(str, "%0<width>x", v)
sprintf_X(width, v) == ZeroPad(HexDigits(v, UpperDigits), width)

sprintf_x(width, v) == ZeroPad(HexDigits(v, LowerDigits), width)

\* sprintf(str, "%0<width>x", v) for an unsigned v
sprintf_x32(width, v) ==
    IF v.hi = 0 THEN sprintf_x(width, v.lo)
    ELSE ZeroPad(HexDigits(v.hi, LowerDigits) \o sprintf_x(4, v.lo), width)

-----------------------------------------------------------------------------
(* Local buffers *)

\* b[i] of C
B(b, i) == b[i + 1]

\* indices of out[] that bitbuffer_extract_bytes stores for len bits
ExtractIndex(len) == 0..(((len + 7) \div 8) - 1)

\* a C double, kept exact as a fraction
Double(num, den) == [num |-> num, den |-> den]

NoData == <<>>

-----------------------------------------------------------------------------
(* schraeder_callback *)

\* faulty variant: the length test written as bits_per_row < 68
schraeder_length_ok_atleast(bbuf) == bbuf.bits_per_row >= 68

schraeder_length_ok(bbuf) == bbuf.bits_per_row = 68

schraeder_extract(bbuf) == [pos |-> 4, len |-> 64]

\* faulty variant: the CRC started from 0 instead of 0xf0
schraeder_mic_ok_init0(b) == B(b, 7) = crc8(b, 7, 7, 0)

schraeder_mic_ok(b) == B(b, 7) = crc8(b, 7, 7, 240)

\* faulty variant: the shifts of b[2] and b[3] exchanged
schraeder_serial_id_swapped(b) ==
    BitOr(BitOr(BitOr(Shl(BitAnd(B(b, 1), 15), 24), Shl(B(b, 2), 8)),
                Shl(B(b, 3), 16)), B(b, 4))

schraeder_serial_id(b) ==
    BitOr(BitOr(BitOr(Shl(BitAnd(B(b, 1), 15), 24), Shl(B(b, 2), 16)),
                Shl(B(b, 3), 8)), B(b, 4))

schraeder_flags(b) == BitOr(Shl(BitAnd(B(b, 0), 15), 4), Shr(B(b, 1), 4))

schraeder_pressure(b) == B(b, 5) * 25

schraeder_temperature(b) == B(b, 6) - 50

schraeder_data(b) ==
    [model         |-> "Schrader",
     type          |-> "TPMS",
     flags         |-> sprintf_x(2, schraeder_flags(b)),
     id            |-> sprintf_X(7, schraeder_serial_id(b)),
     pressure_kPa  |-> Double(schraeder_pressure(b), 10),
     temperature_C |-> Double(schraeder_temperature(b), 1),
     mic           |-> "CRC"]

\* indices of b[] used after the extraction: crc8 over 7 bytes, b[7], the fields
schraeder_index == (0..6) \cup {7} \cup {1, 2, 3, 4} \cup {0, 1} \cup {5} \cup {6}

schraeder_attempt ==
    /\ variant' = "Schrader"
    /\ b_size' = 8
    /\ PARITY_VAL' = 0
    /\ parity_ret' = 0
    /\ IF ~schraeder_length_ok(bitbuffer)
       THEN /\ ret' = DECODE_ABORT_LENGTH
            /\ output' = NoData
            /\ extract_calls' = <<>>
            /\ b_index' = {}
       ELSE LET call == schraeder_extract(bitbuffer)
                b    == bitbuffer_extract_bytes(bitbuffer, call.pos, call.len)
            IN  /\ extract_calls' = <<call>>
                /\ IF ~schraeder_mic_ok(b)
                   THEN /\ ret' = DECODE_FAIL_MIC
                        /\ output' = NoData
                        /\ b_index' = ExtractIndex(call.len) \cup (0..6) \cup {7}
                   ELSE /\ ret' = 1
                        /\ output' = <<schraeder_data(b)>>
                        /\ b_index' = ExtractIndex(call.len) \cup schraeder_index
    /\ UNCHANGED bitbuffer

-----------------------------------------------------------------------------
(* schrader_EG53MA4_callback *)

EG53MA4_length_ok(bbuf) == bbuf.bits_per_row = 120

EG53MA4_extract(bbuf) == [pos |-> 40, len |-> 80]

\* faulty variant: the sum not reduced modulo 256
EG53MA4_checksum_unmasked(b) == add_bytes(b, 9)

EG53MA4_checksum(b) == BitAnd(add_bytes(b, 9), 255)

EG53MA4_mic_ok(b) == EG53MA4_checksum(b) = B(b, 9)

EG53MA4_serial_id(b) == BitOr(BitOr(Shl(B(b, 4), 16), Shl(B(b, 5), 8)), B(b, 6))

\* faulty variant: the shifts of b[0] and b[1] exchanged
EG53MA4_flags_swapped(b) ==
    U32Or(U32Or(U32Or(U32Shl(B(b, 0), 16), U32Shl(B(b, 1), 24)),
                U32Shl(B(b, 2), 8)), U32Shl(B(b, 3), 0))

EG53MA4_flags(b) ==
    U32Or(U32Or(U32Or(U32Shl(B(b, 0), 24), U32Shl(B(b, 1), 16)),
                U32Shl(B(b, 2), 8)), U32Shl(B(b, 3), 0))

EG53MA4_pressure(b) == B(b, 7) * 25

EG53MA4_temperature(b) == B(b, 8)

EG53MA4_data(b) ==
    [model         |-> "Schrader-EG53MA4",
     type          |-> "TPMS",
     flags         |-> sprintf_x32(8, EG53MA4_flags(b)),
     id            |-> sprintf_X(6, EG53MA4_serial_id(b)),
     pressure_kPa  |-> Double(EG53MA4_pressure(b), 10),
     temperature_F |-> Double(EG53MA4_temperature(b), 1),
     mic           |-> "CHECKSUM"]

EG53MA4_index == (0..8) \cup {9} \cup {4, 5, 6} \cup {0, 1, 2, 3} \cup {7} \cup {8}

schrader_EG53MA4_attempt ==
    /\ variant' = "Schrader-EG53MA4"
    /\ b_size' = 10
    /\ PARITY_VAL' = 0
    /\ parity_ret' = 0
    /\ IF ~EG53MA4_length_ok(bitbuffer)
       THEN /\ ret' = DECODE_ABORT_LENGTH
            /\ output' = NoData
            /\ extract_calls' = <<>>
            /\ b_index' = {}
       ELSE LET call == EG53MA4_extract(bitbuffer)
                b    == bitbuffer_extract_bytes(bitbuffer, call.pos, call.len)
            IN  /\ extract_calls' = <<call>>
                /\ IF ~EG53MA4_mic_ok(b)
                   THEN /\ ret' = DECODE_FAIL_MIC
                        /\ output' = NoData
                        /\ b_index' = ExtractIndex(call.len) \cup (0..8) \cup {9}
                   ELSE /\ ret' = 1
                        /\ output' = <<EG53MA4_data(b)>>
                        /\ b_index' = ExtractIndex(call.len) \cup EG53MA4_index
    /\ UNCHANGED bitbuffer

-----------------------------------------------------------------------------
(* schrader_SE3_callback *)

find_byte_parity(byte) ==
    LET p0 == 1
        p1 == BitXor(p0, BitAnd(Shr(byte, 7), 1))
        p2 == BitXor(p1, BitAnd(Shr(byte, 6), 1))
        p3 == BitXor(p2, BitAnd(Shr(byte, 5), 1))
        p4 == BitXor(p3, BitAnd(Shr(byte, 4), 1))
        p5 == BitXor(p4, BitAnd(Shr(byte, 3), 1))
        p6 == BitXor(p5, BitAnd(Shr(byte, 2), 1))
        p7 == BitXor(p6, BitAnd(byte, 1))
    IN  BitAnd(p7, 1)

\* find_byte_parity(data[j]) for j = 0 .. LENGTH-1, the terms of parity_check's loop
RECURSIVE byte_parities(_, _)
byte_parities(data, LENGTH) ==
    IF LENGTH = 0 THEN <<>>
    ELSE Append(byte_parities(data, LENGTH - 1), find_byte_parity(B(data, LENGTH - 1)))

\* the loop of parity_check over the terms, from the value the accumulator
\* starts with
RECURSIVE parity_loop(_, _, _)
parity_loop(terms, j, parity) ==
    IF j = 0 THEN parity
    ELSE BitXor(parity_loop(terms, j - 1, parity), B(terms, j - 1))

\* parity_check(data, LENGTH): the accumulator is declared without a value, so
\* it starts with whatever its storage holds
parity_check(terms, LENGTH, indeterminate) ==
    BitAnd(parity_loop(terms, LENGTH, indeterminate), 1)

\* values an uninitialised uint8_t can hold
Indeterminate == 0..255

\* what the byte after b[4] belongs to: b[5] = 0x00 stores there.  Every local
\* but PARITY_VAL is assigned only after that store.
Neighbours == {"padding", "PARITY_VAL", "flags", "id_str", "flags_str"}

\* faulty variant: the 53-bit length forgotten
SE3_length_ok_only52(bbuf) == bbuf.bits_per_row = 52

SE3_length_ok(bbuf) == bbuf.bits_per_row = 52 \/ bbuf.bits_per_row = 53

SE3_extract(bbuf) == [pos |-> 16, len |-> 40]

\* faulty variant: the rejection on a parity mismatch left in
SE3_mic_reject_enforced(computed, expected) == computed # expected

\* the rejection on a parity mismatch is commented out
SE3_mic_reject(computed, expected) == FALSE

SE3_flags(b) == U8(Shr(BitAnd(B(b, 0), 224), 5))

\* faulty variant: the low bits masked with 0x0F instead of 0x1F
SE3_id_byte_mask0F(b, i) ==
    U8(BitOr(Shl(BitAnd(B(b, i), 15), 3), Shr(BitAnd(B(b, i + 1), 224), 5)))

SE3_id_byte(b, i) ==
    U8(BitOr(Shl(BitAnd(B(b, i), 31), 3), Shr(BitAnd(B(b, i + 1), 224), 5)))

SE3_serial_id(b) ==
    BitOr(BitOr(Shl(SE3_id_byte(b, 0), 16), Shl(SE3_id_byte(b, 1), 8)),
          SE3_id_byte(b, 2))

SE3_pressure(b) ==
    U8(BitOr(Shl(BitAnd(B(b, 3), 31), 3), Shr(BitAnd(B(b, 4), 224), 5)))

SE3_data(b) ==
    [model        |-> "Schrader-SE3",
     type         |-> "TPMS",
     flags        |-> sprintf_x(2, SE3_flags(b)),
     id           |-> sprintf_X(6, SE3_serial_id(b)),
     pressure_kPa |-> Double(2 * SE3_pressure(b) + 1, 10),
     mic          |-> "N/A"]

\* indices of b[] used after the extraction: b[4] read and written, b[5]
\* written, parity_check over 5 bytes, the fields
SE3_parity_index == {4} \cup {5} \cup (0..4)

SE3_field_index == {0} \cup {0, 1} \cup {1, 2} \cup {2, 3} \cup {3, 4}

schrader_SE3_attempt ==
    /\ variant' = "Schrader-SE3"
    /\ b_size' = 5
    /\ IF ~SE3_length_ok(bitbuffer)
       THEN /\ ret' = DECODE_ABORT_LENGTH
            /\ output' = NoData
            /\ extract_calls' = <<>>
            /\ b_index' = {}
            /\ PARITY_VAL' = 0
            /\ parity_ret' = 0
       ELSE LET call == SE3_extract(bitbuffer)
                b0   == bitbuffer_extract_bytes(bitbuffer, call.pos, call.len)
                pv0  == Shr(BitAnd(B(b0, 4), 16), 4)
                b    == [b0 EXCEPT ![5] = BitAnd(B(b0, 4), 224)]
            IN  \E terms \in {byte_parities(b, 5)} :
                \E data \in {SE3_data(b)},
                   \* parity_check(b, 5) with its accumulator indeterminate
                   par \in {parity_check(terms, 5, indeterminate) :
                               indeterminate \in Indeterminate},
                   \* b[5] = 0x00 stores in the neighbour of b[]
                   pv \in {IF neighbour = "PARITY_VAL" THEN 0 ELSE pv0 :
                              neighbour \in Neighbours} :
                /\ extract_calls' = <<call>>
                /\ PARITY_VAL' = pv
                /\ parity_ret' = par
                /\ IF par # pv /\ SE3_mic_reject(par, pv)
                   THEN /\ ret' = DECODE_FAIL_MIC
                        /\ output' = NoData
                        /\ b_index' = ExtractIndex(call.len) \cup SE3_parity_index
                   ELSE /\ ret' = 1
                        /\ output' = <<data>>
                        /\ b_index' = ExtractIndex(call.len) \cup SE3_parity_index
                                          \cup SE3_field_index
    /\ UNCHANGED bitbuffer

-----------------------------------------------------------------------------
(* Frames the demodulator delivers *)

\* the bits of a byte sequence, most significant bit of each byte first
BytesBits(bytes) ==
    [k \in 1..(8 * Len(bytes)) |-> Bit(bytes[((k - 1) \div 8) + 1], 7 - ((k - 1) % 8))]

Row(bits, pad) == [bits_per_row |-> Len(bits), bb |-> bits, pad |-> pad]

\* byte i of the pseudo-random payload of a seed
Pattern(seed, i) == (seed * 151 + i * 67 + seed * i * 29 + 13) % 256

PatternBytes(seed, n) == [i \in 1..n |-> Pattern(seed, i)]

Filled(v, n) == [i \in 1..n |-> v]

Patterns(n, seeds) == {PatternBytes(seed, n) : seed \in seeds}

Payloads(n, seeds) == Patterns(n, seeds) \cup {Filled(0, n), Filled(255, n)}

Deltas(max) == (0..max) \cup {128, 255}

\* the example of the header comment: 7 f6 70 3a 38 b2 00 49 49
DocPayload == <<246, 112, 58, 56, 178, 0, 73>>

SyncNibble == <<0, 1, 1, 1>>

\* 68-bit rows: the sync nibble, 7 payload bytes, the CRC offset by a delta
ClassicFrames(payloads, deltas) ==
    {Row(SyncNibble \o BytesBits(Append(p, U8(crc8(p, 7, 7, 240) + d))), 0) :
        p \in payloads, d \in deltas}

\* 120-bit rows: 40 leading bits, 9 payload bytes, the checksum offset by a delta
EG53MA4Frames(payloads, deltas) ==
    {Row(BytesBits(Filled(85, 5)) \o BytesBits(Append(p, U8(add_bytes(p, 9) + d))), 0) :
        p \in payloads, d \in deltas}

\* 52- and 53-bit rows: 16 leading bits, 36 payload bits, the 53rd bit either way
SE3Frames(payloads, pads) ==
    {Row(SubSeq(BytesBits(<<85, 86>> \o p), 1, 52) \o tail, pad) :
        p \in payloads, tail \in {<<>>, <<0>>, <<1>>}, pad \in pads}

\* rows one bit shorter and one bit longer than the rows of a set
OffByOne(rows) ==
    {Row(SubSeq(r.bb, 1, r.bits_per_row - 1), r.pad) : r \in rows}
        \cup {Row(Append(r.bb, x), r.pad) : r \in rows, x \in {0, 1}}

EmptyRow == Row(<<>>, 0)

Frames ==
    ClassicFrames(Payloads(7, 0..NSeed) \cup {DocPayload}, Deltas(NDelta))
        \cup ClassicFrames({DocPayload}, 0..255)
        \cup EG53MA4Frames(Payloads(9, 0..NSeed), Deltas(NDelta))
        \cup EG53MA4Frames(Patterns(9, {0}), 0..255)
        \cup SE3Frames(Payloads(5, 0..NSeed), {0, 1})
        \cup OffByOne(ClassicFrames(Patterns(7, {0}), {0})
                          \cup EG53MA4Frames(Patterns(9, {0}), {0})
                          \cup SE3Frames(Patterns(5, {0}), {0}))
        \cup {EmptyRow}

PairFrames ==
    ClassicFrames(Patterns(7, 0..NPairSeed), {0, 1})
        \cup EG53MA4Frames(Patterns(9, 0..NPairSeed), {0, 1})
        \cup SE3Frames(Patterns(5, 0..NPairSeed), {0})

-----------------------------------------------------------------------------
(* The host *)

NoAttempt == [variant |-> "none", bitbuffer |-> EmptyRow, ret |-> 0, output |-> NoData]

Init ==
    /\ bitbuffer = EmptyRow
    /\ variant = "none"
    /\ ret = 0
    /\ output = NoData
    /\ extract_calls = <<>>
    /\ b_index = {}
    /\ b_size = 0
    /\ PARITY_VAL = 0
    /\ parity_ret = 0
    /\ first = NoAttempt

\* the demodulator delivers a row; no decoder has run on it yet
Receive(rows) ==
    /\ \E r \in rows : bitbuffer' = r
    /\ variant' = "none"
    /\ ret' = 0
    /\ output' = NoData
    /\ extract_calls' = <<>>
    /\ b_index' = {}
    /\ b_size' = 0
    /\ PARITY_VAL' = 0
    /\ parity_ret' = 0

\* the history variable keeps the first attempt ever made
Remember ==
    first' = IF first.variant = "none"
             THEN [variant |-> variant', bitbuffer |-> bitbuffer,
                   ret |-> ret', output |-> output']
             ELSE first

receive == Receive(Frames) /\ UNCHANGED first

schraeder_callback == schraeder_attempt /\ UNCHANGED first

schrader_EG53MA4_callback == schrader_EG53MA4_attempt /\ UNCHANGED first

schrader_SE3_callback == schrader_SE3_attempt /\ UNCHANGED first

Next ==
    \/ receive
    \/ schraeder_callback
    \/ schrader_EG53MA4_callback
    \/ schrader_SE3_callback

Spec == Init /\ [][Next]_vars

receive_pair == Receive(PairFrames) /\ UNCHANGED first

schraeder_callback_pair == schraeder_attempt /\ Remember

schrader_EG53MA4_callback_pair == schrader_EG53MA4_attempt /\ Remember

schrader_SE3_callback_pair == schrader_SE3_attempt /\ Remember

PairNext ==
    \/ receive_pair
    \/ schraeder_callback_pair
    \/ schrader_EG53MA4_callback_pair
    \/ schrader_SE3_callback_pair

PairSpec == Init /\ [][PairNext]_vars

-----------------------------------------------------------------------------
(* What the properties are stated with *)

\* bit i (from 0) of the captured row as the decoders see it
FrameBit(i) == IF i < bitbuffer.bits_per_row THEN bitbuffer.bb[i + 1] ELSE bitbuffer.pad

\* byte k of the row after discarding its first skip bits
FrameByte(skip, k) ==
    128 * FrameBit(skip + 8 * k) + 64 * FrameBit(skip + 8 * k + 1)
        + 32 * FrameBit(skip + 8 * k + 2) + 16 * FrameBit(skip + 8 * k + 3)
        + 8 * FrameBit(skip + 8 * k + 4) + 4 * FrameBit(skip + 8 * k + 5)
        + 2 * FrameBit(skip + 8 * k + 6) + FrameBit(skip + 8 * k + 7)

FrameBytes(skip, n) == [k \in 1..n |-> FrameByte(skip, k - 1)]

HexDigitValue(c) == CHOOSE d \in 0..15 : UpperDigits[d + 1] = c \/ LowerDigits[d + 1] = c

\* the number a string of hexadecimal digits denotes
RECURSIVE HexValue(_)
HexValue(str) ==
    IF str = <<>> THEN 0
    ELSE 16 * HexValue(SubSeq(str, 1, Len(str) - 1)) + HexDigitValue(str[Len(str)])

Accepted == ret = 1 /\ Len(output) = 1

Rejected(code) == ret = code /\ output = NoData

\* C1: a row whose length the decoder does not accept (Classic: 68, EG53MA4:
\* 120, SE3: 52 or 53) is rejected with DECODE_ABORT_LENGTH, without a call of
\* bitbuffer_extract_bytes and without a reading
C1_WrongLengthAborts ==
    LET n == bitbuffer.bits_per_row
        wrong == \/ variant = "Schrader" /\ n # 68
                 \/ variant = "Schrader-EG53MA4" /\ n # 120
                 \/ variant = "Schrader-SE3" /\ n # 52 /\ n # 53
    IN  wrong => Rejected(DECODE_ABORT_LENGTH) /\ extract_calls = <<>>

C1_Witness ==
    /\ variant = "Schrader"
    /\ bitbuffer.bits_per_row = 69
    /\ ret = DECODE_ABORT_LENGTH
    /\ extract_calls = <<>>

\* C2: Classic on a 68-bit row: a reading is emitted exactly if b[7] is the
\* CRC-8 (polynomial 0x07, initial value 0xF0) of b[0..6]; otherwise the result
\* is DECODE_FAIL_MIC and nothing is emitted
C2_ClassicCrcDecides ==
    (variant = "Schrader" /\ bitbuffer.bits_per_row = 68) =>
        IF FrameByte(4, 7) = crc8(FrameBytes(4, 7), 7, 7, 240)
        THEN Accepted
        ELSE Rejected(DECODE_FAIL_MIC)

C2_Witness ==
    /\ variant = "Schrader"
    /\ bitbuffer.bits_per_row = 68
    /\ FrameByte(4, 7) = U8(crc8(FrameBytes(4, 7), 7, 7, 240) + 1)
    /\ Rejected(DECODE_FAIL_MIC)

\* C3: EG53MA4 on a 120-bit row: a reading is emitted exactly if b[9] is the
\* sum of b[0..8] modulo 256; a checksum byte off by any nonzero delta gives
\* DECODE_FAIL_MIC and no reading
C3_EG53MA4ChecksumDecides ==
    (variant = "Schrader-EG53MA4" /\ bitbuffer.bits_per_row = 120) =>
        LET sum == FrameByte(40, 0) + FrameByte(40, 1) + FrameByte(40, 2)
                     + FrameByte(40, 3) + FrameByte(40, 4) + FrameByte(40, 5)
                     + FrameByte(40, 6) + FrameByte(40, 7) + FrameByte(40, 8)
            delta == (FrameByte(40, 9) + 256 - (sum % 256)) % 256
        IN  IF delta = 0 THEN Accepted ELSE Rejected(DECODE_FAIL_MIC)

\* an accepted row whose byte sum exceeds 255
C3_Witness ==
    /\ variant = "Schrader-EG53MA4"
    /\ bitbuffer.bits_per_row = 120
    /\ Accepted
    /\ FrameByte(40, 0) + FrameByte(40, 1) + FrameByte(40, 2) > 255

\* C4: Classic, CRC passed: flags is the low nibble of b[0] followed by the
\* high nibble of b[1], sensor_id is (b[1] & 0x0F)<<24 | b[2]<<16 | b[3]<<8 | b[4]
\* and below 2^28, the pressure is b[5]*25 mbar (b[5]*2.5 kPa), the temperature
\* is b[6] - 50 C, within -50..205
C4_ClassicFields ==
    (variant = "Schrader" /\ ret = 1) =>
        /\ Len(output) = 1
        /\ Len(output[1].flags) = 2
        /\ HexValue(output[1].flags) = (FrameByte(4, 0) % 16) * 16 + (FrameByte(4, 1) \div 16)
        /\ Len(output[1].id) = 7
        /\ HexValue(output[1].id) =
               (FrameByte(4, 1) % 16) * 16777216 + FrameByte(4, 2) * 65536
                   + FrameByte(4, 3) * 256 + FrameByte(4, 4)
        /\ HexValue(output[1].id) >= 0
        /\ HexValue(output[1].id) < 268435456
        /\ output[1].pressure_kPa = [num |-> FrameByte(4, 5) * 25, den |-> 10]
        /\ (FrameByte(4, 5) = 0 => output[1].pressure_kPa.num = 0)
        /\ (FrameByte(4, 5) = 255 => output[1].pressure_kPa.num = 6375)
        /\ output[1].temperature_C = [num |-> FrameByte(4, 6) - 50, den |-> 1]
        /\ output[1].temperature_C.num >= -50
        /\ output[1].temperature_C.num <= 205

\* the example of the header comment, decoded
C4_Witness ==
    /\ variant = "Schrader"
    /\ ret = 1
    /\ FrameBytes(4, 7) = DocPayload
    /\ output[1].id = <<"0", "3", "A", "3", "8", "B", "2">>
    /\ output[1].flags = <<"6", "7">>
    /\ output[1].temperature_C.num = 23

SE3Length(n) == n = 52 \/ n = 53

\* the first attempt and the last are SE3 attempts on a 52-bit and a 53-bit
\* row (either way round) with the same first 52 bits
SE3PairOf52And53 ==
    /\ first.variant = "Schrader-SE3"
    /\ variant = "Schrader-SE3"
    /\ SE3Length(first.bitbuffer.bits_per_row)
    /\ SE3Length(bitbuffer.bits_per_row)
    /\ first.bitbuffer.bits_per_row # bitbuffer.bits_per_row
    /\ SubSeq(first.bitbuffer.bb, 1, 52) = SubSeq(bitbuffer.bb, 1, 52)

\* C6: SE3 on a 52-bit row and on a 53-bit row with the same first 52 bits:
\* both pass the length check and give the same sensor_id, pressure and flags
C6_SE3SameFieldsFor52And53 ==
    SE3PairOf52And53 =>
        /\ first.ret = 1
        /\ Accepted
        /\ Len(first.output) = 1
        /\ first.output[1].id = output[1].id
        /\ first.output[1].pressure_kPa = output[1].pressure_kPa
        /\ first.output[1].flags = output[1].flags

C6_Witness ==
    /\ SE3PairOf52And53
    /\ first.bitbuffer.bits_per_row = 52
    /\ bitbuffer.bb[53] = 1
    /\ Accepted

\* C7: an attempt of the decoder that made the first attempt, on the same row,
\* gives the same return value and the same reading, whatever ran in between
\* and whatever the uninitialised parity accumulator held
C7_SameFrameSameResult ==
    (first.variant = variant /\ first.bitbuffer = bitbuffer) =>
        first.ret = ret /\ first.output = output

\* an SE3 attempt repeated, its computed parity differing from the frame's
C7_Witness ==
    /\ first.variant = "Schrader-SE3"
    /\ variant = "Schrader-SE3"
    /\ first.bitbuffer = bitbuffer
    /\ SE3Length(bitbuffer.bits_per_row)
    /\ parity_ret # PARITY_VAL
    /\ ret = 1

\* C8: SE3 on a 52- or 53-bit row always emits one reading, labelled "N/A",
\* whether or not the parity matches: flags = b[0]>>5, sensor_id the three
\* groups (b[i] & 0x1F)<<3 | b[i+1]>>5, pressure_raw = (b[3] & 0x1F)<<3 | b[4]>>5
C8_SE3AlwaysDecodes ==
    (variant = "Schrader-SE3" /\ SE3Length(bitbuffer.bits_per_row)) =>
        /\ Accepted
        /\ output[1].mic = "N/A"
        /\ HexValue(output[1].flags) = FrameByte(16, 0) \div 32
        /\ Len(output[1].id) = 6
        /\ \A i \in 0..2 :
               HexValue(SubSeq(output[1].id, 2 * i + 1, 2 * i + 2)) =
                   (FrameByte(16, i) % 32) * 8 + (FrameByte(16, i + 1) \div 32)
        /\ output[1].pressure_kPa =
               [num |-> 2 * ((FrameByte(16, 3) % 32) * 8 + (FrameByte(16, 4) \div 32)) + 1,
                den |-> 10]

\* a reading emitted although the computed parity differs from the frame's bit
C8_Witness ==
    /\ variant = "Schrader-SE3"
    /\ SE3Length(bitbuffer.bits_per_row)
    /\ parity_ret # PARITY_VAL
    /\ PARITY_VAL = FrameBit(16 + 35)
    /\ Accepted

\* C9: every call of bitbuffer_extract_bytes asks for bits within the row:
\* pos + len is at most bits_per_row
C9_ExtractionWithinFrame ==
    \A i \in 1..Len(extract_calls) :
        extract_calls[i].pos + extract_calls[i].len <= bitbuffer.bits_per_row

\* C10: every index at which a decoder reads or writes b[] is below the
\* declared size of b[]
C10_BufferIndexInBounds == \A i \in b_index : i < b_size

====
